---- MODULE Spec2Model ----
(***************************************************************************)
(* Fourier-inversion option pricing from a log-MGF grid (mgf_pricer.py).   *)
(*                                                                         *)
(* The repository holds two copies of the module:                          *)
(*   core  = src/stochvolmodels/pricers/core/mgf_pricer.py                 *)
(*   utils = src/utils/mgf_pricer.py                                       *)
(* Functions that are textually the same in both copies are modelled once  *)
(* (from the core copy); functions that differ are modelled twice, the     *)
(* utils one with the prefix utils_.                                       *)
(*                                                                         *)
(* Numbers.  Every function is a pure function of its arguments; a call is *)
(* a record of arguments and the state after it holds the returned value.  *)
(*   - a float is a record [nan, n, e]: NaN, or the value n/den + e*1e-10, *)
(*     where den is the denominator carried by the array it belongs to     *)
(*     (e is used only by the 1e-10 floor of the variance pricer);         *)
(*   - a contour is [re, den, im]: the common real part re, and the        *)
(*     imaginary parts im[k]/den.  re is [q, t] = q/4 + t*1e-11, which     *)
(*     resolves the 1e-10 tolerance of the kernel test;                    *)
(*   - weights are [den, w]: w[k]/den with den = 6 * (contour den), so the *)
(*     factors 1/2 and 1/3 of the two rules are exact;                     *)
(*   - an entry g of the log-MGF grid is NaN or finite; a finite entry     *)
(*     stands for the value of real(kernel * exp(. + log_mgf)) per unit    *)
(*     weight at that contour point, pi factored out.                      *)
(***************************************************************************)
EXTENDS Integers, Sequences, FiniteSets, TLC

VARIABLES pc, call, ret

vars == <<pc, call, ret>>

(* ------------------------------ floats -------------------------------- *)

Fl(n) == [nan |-> FALSE, n |-> n, e |-> 0]

NaN == [nan |-> TRUE, n |-> 0, e |-> 0]

\* a >= b for two non-NaN floats of the same denominator (IEEE: any
\* comparison with a NaN is false)
FlGeq(a, b) ==
    /\ ~a.nan
    /\ ~b.nan
    /\ \/ a.n > b.n
       \/ a.n = b.n /\ a.e >= b.e

\* np.nansum: the sum of the entries that are not NaN (0 when there is none)
RECURSIVE nansum(_)
nansum(s) ==
    IF s = <<>> THEN 0
    ELSE (IF Head(s).nan THEN 0 ELSE Head(s).n) + nansum(Tail(s))

(* --------------------------- grid builder ------------------------------ *)

\* real parts, in quarters plus 1e-11 units
Re(q, t) == [q |-> q, t |-> t]

\* number of points of the log-return contour
NumPhi == 1000

\* number of points of the quadratic-variation and of the volatility contour
NumPsi == 4000

\* upper end of the quadratic-variation contour, core copy
PsiMax == 200

\* upper end of the quadratic-variation contour, utils copy
UtilsPsiMax == 100

\* upper end of the volatility contour
ThetaMax == 600

\* np.linspace(0, stop_num/stop_den, num): point k (from 0) is
\* k*stop/(num-1), kept over the common denominator (num-1)*stop_den
linspace(stop_num, stop_den, num) ==
    [den |-> (num - 1) * stop_den,
     im  |-> [k \in 1..num |-> (k - 1) * stop_num]]

\* vol_scaler is given in hundredths: 5.6/vol_scaler = 560/vol_scaler_h
get_phi_grid(is_spot_measure, vol_scaler_h) ==
    LET p == linspace(560, vol_scaler_h, NumPhi)
        real_p == IF is_spot_measure THEN Re(-2, 0) ELSE Re(2, 0)
    IN  [re |-> real_p, den |-> p.den, im |-> p.im]

get_psi_grid ==
    LET p == linspace(PsiMax, 1, NumPsi)
    IN  [re |-> Re(-2, 0), den |-> p.den, im |-> p.im]

utils_get_psi_grid ==
    LET p == linspace(UtilsPsiMax, 1, NumPsi)
    IN  [re |-> Re(-2, 0), den |-> p.den, im |-> p.im]

get_theta_grid ==
    LET p == linspace(ThetaMax, 1, NumPsi)
    IN  [re |-> Re(-2, 0), den |-> p.den, im |-> p.im]

\* np.zeros_like(grid, dtype=complex128)
zeros_like(grid) ==
    [re |-> Re(0, 0), den |-> 1, im |-> [k \in 1..Len(grid.im) |-> 0]]

\* np.ones_like(grid, dtype=complex128)
ones_like(grid) ==
    [re |-> Re(4, 0), den |-> 1, im |-> [k \in 1..Len(grid.im) |-> 0]]

\* faulty variant of build_transform_var_grid (C3): the phi placeholder of
\* Q_VAR is all-zero under either measure
build_transform_var_grid_zero_phi(variable_type, is_spot_measure, vol_scaler_h, psi) ==
    IF variable_type = "LOG_RETURN" THEN
        LET phi_grid == get_phi_grid(is_spot_measure, vol_scaler_h)
        IN  [status |-> "ok",
             phi_grid |-> phi_grid,
             psi_grid |-> zeros_like(phi_grid),
             theta_grid |-> zeros_like(phi_grid)]
    ELSE IF variable_type = "Q_VAR" THEN
        [status |-> "ok",
         phi_grid |-> zeros_like(psi),
         psi_grid |-> psi,
         theta_grid |-> zeros_like(psi)]
    ELSE IF variable_type = "SIGMA" THEN
        LET theta_grid == get_theta_grid
        IN  [status |-> "ok",
             phi_grid |-> zeros_like(theta_grid),
             psi_grid |-> zeros_like(theta_grid),
             theta_grid |-> theta_grid]
    ELSE [status |-> "NotImplementedError"]

\* the body of get_transform_var_grid, given the copy's psi contour
build_transform_var_grid(variable_type, is_spot_measure, vol_scaler_h, psi) ==
    IF variable_type = "LOG_RETURN" THEN
        LET phi_grid == get_phi_grid(is_spot_measure, vol_scaler_h)
        IN  [status |-> "ok",
             phi_grid |-> phi_grid,
             psi_grid |-> zeros_like(phi_grid),
             theta_grid |-> zeros_like(phi_grid)]
    ELSE IF variable_type = "Q_VAR" THEN
        LET psi_grid == psi
            phi_grid == IF is_spot_measure THEN zeros_like(psi_grid)
                        ELSE ones_like(psi_grid)
        IN  [status |-> "ok",
             phi_grid |-> phi_grid,
             psi_grid |-> psi_grid,
             theta_grid |-> zeros_like(phi_grid)]
    ELSE IF variable_type = "SIGMA" THEN
        LET theta_grid == get_theta_grid
        IN  [status |-> "ok",
             phi_grid |-> zeros_like(theta_grid),
             psi_grid |-> zeros_like(theta_grid),
             theta_grid |-> theta_grid]
    ELSE [status |-> "NotImplementedError"]

get_transform_var_grid(variable_type, is_spot_measure, vol_scaler_h) ==
    build_transform_var_grid(variable_type, is_spot_measure, vol_scaler_h,
                             get_psi_grid)

utils_get_transform_var_grid(variable_type, is_spot_measure, vol_scaler_h) ==
    build_transform_var_grid(variable_type, is_spot_measure, vol_scaler_h,
                             utils_get_psi_grid)

(* ------------------------ quadrature weights --------------------------- *)

\* faulty variant of simpson_pattern (C6): the two ends are set to 1 after
\* the odd indices are set to 4
simpson_pattern_ends_last(n) ==
    LET init == [k \in 1..n |-> 2]
        odds == [k \in 1..n |-> IF (k - 1) % 2 = 1 THEN 4 ELSE init[k]]
    IN  [k \in 1..n |-> IF k = 1 \/ k = n THEN 1 ELSE odds[k]]

\* dp of the Simpson branch before scaling: 2 everywhere, the two ends set
\* to 1, then every odd index (from 0) set to 4
simpson_pattern(n) ==
    LET init == [k \in 1..n |-> 2]
        ends == [k \in 1..n |-> IF k = 1 \/ k = n THEN 1 ELSE init[k]]
    IN  [k \in 1..n |-> IF (k - 1) % 2 = 1 THEN 4 ELSE ends[k]]

\* faulty variant of compute_integration_weights (C7): the trapezoidal rule
\* gives the first point the whole step instead of half of it
compute_integration_weights_full_first(var_grid, is_simpson) ==
    LET p == var_grid.im
        n == Len(p)
    IN  IF is_simpson THEN
            LET dp == simpson_pattern(n)
            IN  [den |-> 6 * var_grid.den,
                 w   |-> [k \in 1..n |-> 2 * (p[2] - p[1]) * dp[k]]]
        ELSE
            [den |-> 6 * var_grid.den,
             w   |-> [k \in 1..n |->
                        IF k = 1 THEN 6 * (p[2] - p[1])
                        ELSE 6 * (p[k] - p[k - 1])]]

\* weights over 6*den: (p[1]-p[0])/3 * c is 2c(p[1]-p[0])/6, 0.5*(p[1]-p[0])
\* is 3(p[1]-p[0])/6 and p[i]-p[i-1] is 6(p[i]-p[i-1])/6
compute_integration_weights(var_grid, is_simpson) ==
    LET p == var_grid.im
        n == Len(p)
    IN  IF is_simpson THEN
            LET dp == simpson_pattern(n)
            IN  [den |-> 6 * var_grid.den,
                 w   |-> [k \in 1..n |-> 2 * (p[2] - p[1]) * dp[k]]]
        ELSE
            [den |-> 6 * var_grid.den,
             w   |-> [k \in 1..n |->
                        IF k = 1 THEN 3 * (p[2] - p[1])
                        ELSE 6 * (p[k] - p[k - 1])]]

(* --------------------------- slice pricer ------------------------------ *)

ReAbs(r) == IF r.q < 0 \/ (r.q = 0 /\ r.t < 0) THEN Re(-r.q, -r.t) ELSE r

ReSub(a, b) == Re(a.q - b.q, a.t - b.t)

\* a < b; t counts 1e-11 and stays far below a quarter, so the order is
\* lexicographic
ReLt(a, b) == a.q < b.q \/ (a.q = b.q /\ a.t < b.t)

\* which p_payoff the core copy builds (every point of a contour has the
\* real part re, so np.all tests that one value):
\* np.all(np.abs(np.real(phi_grid)) < 0.5000000001)
payoff_kernel(phi_grid, is_spot_measure) ==
    IF ReLt(ReAbs(phi_grid.re), Re(2, 10)) THEN "stable"
    ELSE IF is_spot_measure THEN "generic_spot"
    ELSE "generic_inverse"

\* the utils copy: np.all(np.abs(np.real(phi_grid))-0.5 < 1e-10)
utils_payoff_kernel(phi_grid, is_spot_measure) ==
    IF ReLt(ReSub(ReAbs(phi_grid.re), Re(2, 0)), Re(0, 10)) THEN "stable"
    ELSE IF is_spot_measure THEN "generic_spot"
    ELSE "generic_inverse"

\* np.log(forward/strike) for forward > 0: the array division gives a
\* negative quotient for strike < 0, whose log is NaN, and +inf for
\* strike = 0, whose log is +inf
log_strike(forward, strike) ==
    IF strike < 0 THEN [kind |-> "nan", num |-> forward, den |-> strike]
    ELSE IF strike = 0 THEN [kind |-> "inf", num |-> forward, den |-> strike]
    ELSE [kind |-> "fin", num |-> forward, den |-> strike]

\* np.real(p_payoff*np.exp(-x * phi_grid + log_mgf_grid)) at one point, in
\* units of the weights.  A NaN x or a NaN grid entry makes the term NaN.
\* For x = +inf the product -x*phi has real part -inf when re(phi) > 0 (the
\* exponential is 0) and +inf or NaN otherwise (the term is NaN).
slice_term(w, x, phi_re, g) ==
    IF g.nan \/ x.kind = "nan" THEN NaN
    ELSE IF x.kind = "inf" THEN (IF phi_re.q > 0 THEN Fl(0) ELSE NaN)
    ELSE Fl(w * g.n)

\* capped_option_price = np.nansum(...), over dp.den
capped_option_price(dp, x, phi_grid, log_mgf_grid) ==
    nansum([k \in 1..Len(dp.w) |->
              slice_term(dp.w[k], x, phi_grid.re, log_mgf_grid[k])])

\* faulty variant of option_value (C4): the put subtracts forward*sum
\* instead of strike*sum
option_value_put_forward(branch, forward, strike, x, S, den, discfactor) ==
    CASE branch = "C"  -> Fl(discfactor * (forward * den - strike * S))
      [] branch = "P"  -> Fl(discfactor * (strike * den - forward * S))
      [] branch = "IC" -> Fl(forward * discfactor * (den - S))
      [] branch = "IP" ->
            IF x.kind = "nan" THEN NaN
            ELSE IF x.kind = "inf" THEN Fl(forward * discfactor * (0 - S))
            ELSE Fl(discfactor * (strike * den - forward * S))

\* the four price formulas, over den; S is capped_option_price over den and
\* exp(-x) is strike/forward for a finite x, 0 for x = +inf, NaN for x = NaN
option_value(branch, forward, strike, x, S, den, discfactor) ==
    CASE branch = "C"  -> Fl(discfactor * (forward * den - strike * S))
      [] branch = "P"  -> Fl(discfactor * (strike * den - strike * S))
      [] branch = "IC" -> Fl(forward * discfactor * (den - S))
      [] branch = "IP" ->
            IF x.kind = "nan" THEN NaN
            ELSE IF x.kind = "inf" THEN Fl(forward * discfactor * (0 - S))
            ELSE Fl(discfactor * (strike * den - forward * S))

\* the branch the core copy takes for one option-type code
payoff_branch(is_spot_measure, type_) ==
    IF is_spot_measure THEN
        (IF type_ = "C" THEN "C"
         ELSE IF type_ = "P" THEN "P"
         ELSE "raise")
    ELSE IF type_ \in {"IC", "C"} THEN "IC"
    ELSE IF type_ \in {"IP", "P"} THEN "IP"
    ELSE "raise"

\* the branch the utils copy takes
utils_payoff_branch(is_spot_measure, type_) ==
    IF is_spot_measure THEN
        (IF type_ = "C" THEN "C"
         ELSE IF type_ = "P" THEN "P"
         ELSE "raise")
    ELSE
        (IF type_ = "IC" THEN "IC"
         ELSE IF type_ = "IP" THEN "IP"
         ELSE "raise")

\* the loop over the slice: the first code with no branch raises and no
\* array is returned
slice_prices(log_mgf_grid, phi_grid, forward, strikes, branches, discfactor, is_simpson, kernel) ==
    LET dp == compute_integration_weights(phi_grid, is_simpson)
        log_strikes == [i \in 1..Len(strikes) |->
                          log_strike(forward, strikes[i])]
    IN  IF \E i \in 1..Len(strikes) : branches[i] = "raise"
        THEN [status |-> "ValueError"]
        ELSE [status |-> "ok",
              p_payoff |-> kernel,
              den |-> dp.den,
              option_prices |->
                [i \in 1..Len(strikes) |->
                   option_value(branches[i], forward, strikes[i],
                                log_strikes[i],
                                capped_option_price(dp, log_strikes[i],
                                                    phi_grid, log_mgf_grid),
                                dp.den, discfactor)]]

slice_pricer_with_mgf_grid(log_mgf_grid, phi_grid, forward, strikes, optiontypes, discfactor, is_spot_measure, is_simpson) ==
    slice_prices(log_mgf_grid, phi_grid, forward, strikes,
                 [i \in 1..Len(strikes) |->
                    payoff_branch(is_spot_measure, optiontypes[i])],
                 discfactor, is_simpson,
                 payoff_kernel(phi_grid, is_spot_measure))

utils_slice_pricer_with_mgf_grid(log_mgf_grid, phi_grid, forward, strikes, optiontypes, discfactor, is_spot_measure, is_simpson) ==
    slice_prices(log_mgf_grid, phi_grid, forward, strikes,
                 [i \in 1..Len(strikes) |->
                    utils_payoff_branch(is_spot_measure, optiontypes[i])],
                 discfactor, is_simpson,
                 utils_payoff_kernel(phi_grid, is_spot_measure))

(* ----------------------- variance slice pricer ------------------------- *)

\* 1e-10
Epsilon == [nan |-> FALSE, n |-> 0, e |-> 1]

\* np.maximum: a NaN operand gives NaN
maximum(a, b) ==
    IF a.nan \/ b.nan THEN NaN
    ELSE IF FlGeq(a, b) THEN a ELSE b

\* np.real(p_payoff * np.exp((strike*ttm)*psi_grid + log_mgf_grid)) at one
\* point: strike*ttm is finite, so only a NaN grid entry makes the term NaN
qvar_term(w, g) == IF g.nan THEN NaN ELSE Fl(w * g.n)

\* core copy; prices are over den = dp.den * ttm; is_spot_measure is not read
slice_qvar_pricer_with_a_grid(log_mgf_grid, psi_grid, ttm, strikes, optiontypes, discfactor, is_simpson, is_spot_measure) ==
    LET dp == compute_integration_weights(psi_grid, is_simpson)
        raw == nansum([k \in 1..Len(dp.w) |->
                         qvar_term(dp.w[k], log_mgf_grid[k])])
        option_price == maximum(Fl(discfactor * raw), Epsilon)
    IN  IF \E i \in 1..Len(strikes) : optiontypes[i] # "C"
        THEN [status |-> "ValueError"]
        ELSE [status |-> "ok",
              den |-> dp.den * ttm,
              option_prices |-> [i \in 1..Len(strikes) |-> option_price]]

\* utils copy: dp = p[1]-p[0], the first term has weight 1/2 and is outside
\* the nansum; over den = 6 * psi.den * ttm the price is 3*dp*(mgf[0] +
\* 2*nansum(mgf[1:]))
utils_slice_qvar_pricer_with_a_grid(log_mgf_grid, psi_grid, ttm, strikes, optiontypes, is_spot_measure) ==
    LET p == psi_grid.im
        dp == p[2] - p[1]
        mgf == [k \in 1..Len(p) |-> qvar_term(1, log_mgf_grid[k])]
        option_price ==
            IF mgf[1].nan THEN NaN
            ELSE Fl(3 * dp * (mgf[1].n + 2 * nansum(Tail(mgf))))
        accepted(type_) == IF is_spot_measure THEN type_ = "C"
                           ELSE type_ = "IC"
    IN  IF \E i \in 1..Len(strikes) : ~accepted(optiontypes[i])
        THEN [status |-> "ValueError"]
        ELSE [status |-> "ok",
              den |-> 6 * psi_grid.den * ttm,
              option_prices |-> [i \in 1..Len(strikes) |-> option_price]]

(* -------------------------- density evaluator -------------------------- *)

\* pdf[idx] = dx * nansum(real(dp/pi * exp((x-shift)*grid + log_mgf))), over
\* the weights' denominator; x - shift is finite, so only a NaN grid entry
\* makes a term NaN
pdf_with_mgf_grid(log_mgf_grid, transform_var_grid, space_grid, shift, is_simpson) ==
    LET dp == compute_integration_weights(transform_var_grid, is_simpson)
        s  == nansum([k \in 1..Len(dp.w) |->
                        qvar_term(dp.w[k], log_mgf_grid[k])])
        dx == space_grid[2] - space_grid[1]
    IN  [status |-> "ok",
         den |-> dp.den,
         pdf |-> [i \in 1..Len(space_grid) |-> Fl(dx * s)]]

(* ------------------------------ calls ---------------------------------- *)

\* most points of a contour handed to a pricer or to the density evaluator
MaxPoints == 2

\* most points of a contour handed to compute_integration_weights alone
MaxWeightPoints == 6

\* largest spacing of a uniform contour
MaxStep == 2

\* most strikes of a slice
MaxSlice == 2

Copies == {"core", "utils"}

\* a uniform contour re + i*(0, h, 2h, ...) of n points
UniformContour(re, h, n) ==
    [re |-> re, den |-> 1, im |-> [k \in 1..n |-> (k - 1) * h]]

\* -0.5, 0, 0.25, 0.5, 0.5 + 5e-11, 0.5 + 2e-10, 1
RealParts == {Re(-2, 0), Re(0, 0), Re(1, 0), Re(2, 0), Re(2, 5), Re(2, 20),
              Re(4, 0)}

OptionTypes == {"C", "P", "IC", "IP", "X"}

SeqsOf(S, n) == [1..n -> S]

\* slices of 1..MaxSlice strikes drawn from strikes, with every code
Slices(strikes) ==
    UNION {[strikes : SeqsOf(strikes, n), optiontypes : SeqsOf(OptionTypes, n)]
             : n \in 1..MaxSlice}

\* strikes of either sign and zero
AnySlices == Slices({-1, 0, 2})

PositiveSlices == Slices({2})

GridCall(copy, variable_type, spot, vol_scaler_h) ==
    [fn |-> "get_transform_var_grid", copy |-> copy,
     variable_type |-> variable_type, is_spot_measure |-> spot,
     vol_scaler_h |-> vol_scaler_h]

\* the contours the grid builder makes
BuiltContours ==
    {get_phi_grid(TRUE, 28), get_psi_grid, utils_get_psi_grid, get_theta_grid}

WeightCall(copy, var_grid, simpson) ==
    [fn |-> "compute_integration_weights", copy |-> copy,
     var_grid |-> var_grid, is_simpson |-> simpson]

SliceCall(copy, g, phi, forward, sl, discfactor, spot, simpson) ==
    [fn |-> "slice_pricer_with_mgf_grid", copy |-> copy,
     log_mgf_grid |-> g, phi_grid |-> phi, ttm |-> 1, forward |-> forward,
     strikes |-> sl.strikes, optiontypes |-> sl.optiontypes,
     discfactor |-> discfactor, is_spot_measure |-> spot,
     is_simpson |-> simpson]

\* the utils copy has no is_simpson and no discfactor parameter: its calls
\* carry the defaults of the core copy
QvarCall(copy, g, psi, ttm, sl, spot, simpson) ==
    [fn |-> "slice_qvar_pricer_with_a_grid", copy |-> copy,
     log_mgf_grid |-> g, psi_grid |-> psi, ttm |-> ttm,
     strikes |-> sl.strikes, optiontypes |-> sl.optiontypes, forward |-> 3,
     discfactor |-> 1, is_simpson |-> simpson, is_spot_measure |-> spot]

PdfCall(copy, g, grid, sg, simpson) ==
    [fn |-> "pdf_with_mgf_grid", copy |-> copy, log_mgf_grid |-> g,
     transform_var_grid |-> grid, space_grid |-> sg, shift |-> 0,
     is_simpson |-> simpson]

(* ---------------------------- state machine ---------------------------- *)

\* a call of the grid builder
InitGrid ==
    \E c \in Copies, vt \in {"LOG_RETURN", "Q_VAR", "SIGMA", "OTHER"},
       spot \in BOOLEAN, vs \in {14, 28} :
        call = GridCall(c, vt, spot, vs)

\* a call of compute_integration_weights, on a uniform contour of a small
\* length and spacing or on a contour the grid builder makes
InitWeights ==
    \E c \in Copies, simpson \in BOOLEAN :
        \/ \E h \in 1..MaxStep, n \in 2..MaxWeightPoints :
              call = WeightCall(c, UniformContour(Re(-2, 0), h, n), simpson)
        \/ \E grid \in BuiltContours : call = WeightCall(c, grid, simpson)

\* a call of the slice pricer in which the slice varies (strikes of either
\* sign, every code), on the contour the grid builder places for the measure
InitSliceBySlice ==
    \E c \in Copies, n \in 2..MaxPoints, sl \in AnySlices, d \in {1, 2},
       inverse \in BOOLEAN, simpson \in BOOLEAN :
        \E g \in SeqsOf({NaN, Fl(1)}, n) :
            LET spot == ~inverse IN
            call = SliceCall(c, g,
                             UniformContour(IF spot THEN Re(-2, 0)
                                            ELSE Re(2, 0), 1, n),
                             3, sl, d, spot, simpson)

\* a call of the slice pricer in which the contour and the grid vary, for
\* one strike priced as the call and as the put of the measure
InitSliceByContour ==
    \E c \in Copies, n \in 2..MaxPoints, re \in RealParts, h \in 1..MaxStep,
       inverse \in BOOLEAN, simpson \in BOOLEAN :
        \E g \in SeqsOf({NaN, Fl(-1), Fl(1)}, n) :
            LET spot == ~inverse IN
            call = SliceCall(c, g, UniformContour(re, h, n), 3,
                             [strikes |-> <<2, 2>>,
                              optiontypes |-> IF spot THEN <<"C", "P">>
                                              ELSE <<"IC", "IP">>],
                             1, spot, simpson)

\* a call of the variance pricer
InitQvar ==
    \E c \in Copies, n \in 2..MaxPoints, sl \in PositiveSlices,
       ttm \in {1, 2}, inverse \in BOOLEAN, simpson \in BOOLEAN :
        /\ c = "utils" => simpson
        /\ \E g \in SeqsOf({NaN, Fl(-1), Fl(1)}, n) :
              call = QvarCall(c, g, UniformContour(Re(-2, 0), 1, n), ttm, sl,
                              ~inverse, simpson)

\* a call of the density evaluator
InitPdf ==
    \E c \in Copies, n \in 2..MaxPoints, h \in 1..MaxStep,
       sg \in {<<0, 1>>, <<-2, 0, 2>>}, simpson \in BOOLEAN :
        \E g \in SeqsOf({NaN, Fl(-1), Fl(1)}, n) :
            call = PdfCall(c, g, UniformContour(Re(-2, 0), h, n), sg, simpson)

Init ==
    /\ pc = "ready"
    /\ ret = [status |-> "none"]
    /\ \/ InitGrid
       \/ InitWeights
       \/ InitSliceBySlice
       \/ InitSliceByContour
       \/ InitQvar
       \/ InitPdf

GetTransformVarGrid ==
    /\ pc = "ready"
    /\ call.fn = "get_transform_var_grid"
    /\ call.copy = "core"
    /\ ret' = get_transform_var_grid(call.variable_type,
                                     call.is_spot_measure, call.vol_scaler_h)
    /\ pc' = "done"
    /\ UNCHANGED call

UtilsGetTransformVarGrid ==
    /\ pc = "ready"
    /\ call.fn = "get_transform_var_grid"
    /\ call.copy = "utils"
    /\ ret' = utils_get_transform_var_grid(call.variable_type,
                                           call.is_spot_measure,
                                           call.vol_scaler_h)
    /\ pc' = "done"
    /\ UNCHANGED call

\* the same text in both copies
ComputeIntegrationWeights ==
    /\ pc = "ready"
    /\ call.fn = "compute_integration_weights"
    /\ ret' = [status |-> "ok",
               dp |-> compute_integration_weights(call.var_grid,
                                                  call.is_simpson)]
    /\ pc' = "done"
    /\ UNCHANGED call

SlicePricerWithMgfGrid ==
    /\ pc = "ready"
    /\ call.fn = "slice_pricer_with_mgf_grid"
    /\ call.copy = "core"
    /\ ret' = slice_pricer_with_mgf_grid(call.log_mgf_grid, call.phi_grid,
                                         call.forward, call.strikes,
                                         call.optiontypes, call.discfactor,
                                         call.is_spot_measure,
                                         call.is_simpson)
    /\ pc' = "done"
    /\ UNCHANGED call

UtilsSlicePricerWithMgfGrid ==
    /\ pc = "ready"
    /\ call.fn = "slice_pricer_with_mgf_grid"
    /\ call.copy = "utils"
    /\ ret' = utils_slice_pricer_with_mgf_grid(call.log_mgf_grid,
                                               call.phi_grid, call.forward,
                                               call.strikes, call.optiontypes,
                                               call.discfactor,
                                               call.is_spot_measure,
                                               call.is_simpson)
    /\ pc' = "done"
    /\ UNCHANGED call

SliceQvarPricerWithAGrid ==
    /\ pc = "ready"
    /\ call.fn = "slice_qvar_pricer_with_a_grid"
    /\ call.copy = "core"
    /\ ret' = slice_qvar_pricer_with_a_grid(call.log_mgf_grid, call.psi_grid,
                                            call.ttm, call.strikes,
                                            call.optiontypes, call.discfactor,
                                            call.is_simpson,
                                            call.is_spot_measure)
    /\ pc' = "done"
    /\ UNCHANGED call

UtilsSliceQvarPricerWithAGrid ==
    /\ pc = "ready"
    /\ call.fn = "slice_qvar_pricer_with_a_grid"
    /\ call.copy = "utils"
    /\ ret' = utils_slice_qvar_pricer_with_a_grid(call.log_mgf_grid,
                                                  call.psi_grid, call.ttm,
                                                  call.strikes,
                                                  call.optiontypes,
                                                  call.is_spot_measure)
    /\ pc' = "done"
    /\ UNCHANGED call

\* the same text in both copies
PdfWithMgfGrid ==
    /\ pc = "ready"
    /\ call.fn = "pdf_with_mgf_grid"
    /\ ret' = pdf_with_mgf_grid(call.log_mgf_grid, call.transform_var_grid,
                                call.space_grid, call.shift, call.is_simpson)
    /\ pc' = "done"
    /\ UNCHANGED call

Next ==
    \/ GetTransformVarGrid
    \/ UtilsGetTransformVarGrid
    \/ ComputeIntegrationWeights
    \/ SlicePricerWithMgfGrid
    \/ UtilsSlicePricerWithMgfGrid
    \/ SliceQvarPricerWithAGrid
    \/ UtilsSliceQvarPricerWithAGrid
    \/ PdfWithMgfGrid

Spec == Init /\ [][Next]_vars

(* ------------------------------ claims --------------------------------- *)

Done(fn) == pc = "done" /\ call.fn = fn

Indices == 1..Len(call.strikes)

\* C1: slice_pricer_with_mgf_grid returns prices exactly when every code of
\* the slice is one the measure supports ('C', 'P' under the spot measure,
\* 'IC', 'IP' under the inverse measure); any other code makes it raise.
C1_OnlyMeasureCodesPriced ==
    Done("slice_pricer_with_mgf_grid") =>
        (ret.status = "ok" <=>
            \A i \in Indices :
                call.optiontypes[i] \in (IF call.is_spot_measure
                                         THEN {"C", "P"} ELSE {"IC", "IP"}))

\* C2: slice_qvar_pricer_with_a_grid returns prices exactly when every code
\* is 'C' under the spot measure, 'IC' under the inverse measure; every other
\* (measure, code) pair makes it raise.
C2_QvarCodeFollowsMeasure ==
    Done("slice_qvar_pricer_with_a_grid") =>
        (ret.status = "ok" <=>
            \A i \in Indices :
                call.optiontypes[i] = (IF call.is_spot_measure
                                       THEN "C" ELSE "IC"))

NonConstant(grid) ==
    \E j, k \in DOMAIN grid.im : grid.im[j] # grid.im[k]

AllZero(grid) ==
    grid.re = Re(0, 0) /\ \A k \in DOMAIN grid.im : grid.im[k] = 0

AllOne(grid) ==
    grid.re = Re(4, 0) /\ \A k \in DOMAIN grid.im : grid.im[k] = 0

\* C3: for LOG_RETURN, Q_VAR and SIGMA and either measure,
\* get_transform_var_grid returns three contours of one length; the contour
\* of the kind (phi, psi, theta) is not constant and the other two are
\* all-zero, except the phi placeholder of Q_VAR, which is all-zero under the
\* spot measure and all-one under the inverse measure.
C3_OneActiveContour ==
    (Done("get_transform_var_grid")
       /\ call.variable_type \in {"LOG_RETURN", "Q_VAR", "SIGMA"}) =>
        /\ ret.status = "ok"
        /\ Len(ret.phi_grid.im) = Len(ret.psi_grid.im)
        /\ Len(ret.psi_grid.im) = Len(ret.theta_grid.im)
        /\ call.variable_type = "LOG_RETURN" =>
              /\ NonConstant(ret.phi_grid)
              /\ AllZero(ret.psi_grid)
              /\ AllZero(ret.theta_grid)
        /\ call.variable_type = "Q_VAR" =>
              /\ NonConstant(ret.psi_grid)
              /\ IF call.is_spot_measure THEN AllZero(ret.phi_grid)
                 ELSE AllOne(ret.phi_grid)
              /\ AllZero(ret.theta_grid)
        /\ call.variable_type = "SIGMA" =>
              /\ NonConstant(ret.theta_grid)
              /\ AllZero(ret.phi_grid)
              /\ AllZero(ret.psi_grid)

\* C3 witness: a Q_VAR grid built under the inverse measure, whose phi
\* placeholder is all-one
C3_Witness ==
    /\ Done("get_transform_var_grid")
    /\ call.variable_type = "Q_VAR"
    /\ ~call.is_spot_measure
    /\ AllOne(ret.phi_grid)
    /\ Len(ret.psi_grid.im) = NumPsi

\* C4: under the spot measure, the price of a strike as 'C' minus the price of
\* the same strike as 'P' is discfactor*(forward - strike) (here over the
\* prices' denominator), whatever the Fourier sum is.
C4_PutCallParity ==
    (Done("slice_pricer_with_mgf_grid") /\ call.is_spot_measure
       /\ ret.status = "ok") =>
        \A i, j \in Indices :
            (/\ call.strikes[i] = call.strikes[j]
             /\ call.optiontypes[i] = "C"
             /\ call.optiontypes[j] = "P") =>
                /\ ~ret.option_prices[i].nan
                /\ ~ret.option_prices[j].nan
                /\ ret.option_prices[i].n - ret.option_prices[j].n
                     = call.discfactor
                         * (call.forward - call.strikes[i]) * ret.den

\* C4 witness: a positive strike priced as 'C' and as 'P' in one slice, with
\* a Fourier sum that is not zero (the call is not discfactor*forward)
C4_Witness ==
    /\ Done("slice_pricer_with_mgf_grid")
    /\ call.is_spot_measure
    /\ ret.status = "ok"
    /\ call.strikes = <<2, 2>>
    /\ call.optiontypes = <<"C", "P">>
    /\ ret.option_prices[1].n # call.discfactor * call.forward * ret.den
    /\ \E k \in DOMAIN call.log_mgf_grid : call.log_mgf_grid[k].nan

\* C5: a slice with a strike that is zero or negative is rejected:
\* slice_pricer_with_mgf_grid raises and returns no price array.
C5_NonPositiveStrikeRejected ==
    (Done("slice_pricer_with_mgf_grid")
       /\ \E i \in Indices : call.strikes[i] <= 0) =>
        ret.status # "ok"

\* s[lo] + ... + s[hi], by halves
RECURSIVE SumRange(_, _, _)
SumRange(s, lo, hi) ==
    IF lo > hi THEN 0
    ELSE IF lo = hi THEN s[lo]
    ELSE LET mid == (lo + hi) \div 2
         IN  SumRange(s, lo, mid) + SumRange(s, mid + 1, hi)

SeqSum(s) == SumRange(s, 1, Len(s))

\* the spacing of the contour of a compute_integration_weights call, and its
\* number of points
StepOf == call.var_grid.im[2] - call.var_grid.im[1]

PointsOf == Len(call.var_grid.im)

\* C6 as stated: for n >= 3 points, odd or even, the Simpson weights are h/3
\* at both ends, 4h/3 at every odd interior index and 2h/3 at every even
\* interior index (h/3 is 2*StepOf over the weights' denominator).
C6_SimpsonEndsEqual ==
    (Done("compute_integration_weights") /\ call.is_simpson
       /\ PointsOf >= 3) =>
        /\ Len(ret.dp.w) = PointsOf
        /\ ret.dp.w[1] = 2 * StepOf
        /\ ret.dp.w[PointsOf] = 2 * StepOf
        /\ \A k \in 2..(PointsOf - 1) :
              ret.dp.w[k] = (IF (k - 1) % 2 = 1 THEN 8 ELSE 4) * StepOf

\* C6 amended: for n >= 3 points the Simpson weights are h/3 at the first
\* point, 4h/3 at every odd index and 2h/3 at every even interior index; the
\* last weight is h/3 when n is odd and 4h/3 when n is even (its index n-1 is
\* then odd), as for the lengths 1000 and 4000 of the grid builder.
C6_SimpsonOddIndexWins ==
    (Done("compute_integration_weights") /\ call.is_simpson
       /\ PointsOf >= 3) =>
        /\ Len(ret.dp.w) = PointsOf
        /\ ret.dp.w[1] = 2 * StepOf
        /\ ret.dp.w[PointsOf]
             = (IF PointsOf % 2 = 1 THEN 2 ELSE 8) * StepOf
        /\ \A k \in 2..(PointsOf - 1) :
              ret.dp.w[k] = (IF (k - 1) % 2 = 1 THEN 8 ELSE 4) * StepOf

\* C6 witness: the Simpson weights of the 4000-point contour of the grid
\* builder, whose last weight is 4h/3
C6_Witness ==
    /\ Done("compute_integration_weights")
    /\ call.is_simpson
    /\ PointsOf = NumPsi
    /\ ret.dp.w[PointsOf] = 8 * StepOf

\* C7: for a uniform contour of n >= 2 points and spacing h > 0, and for
\* either rule, compute_integration_weights returns n weights whose sum
\* differs from the contour length h*(n-1) by less than h (6*StepOf is h over
\* the weights' denominator).
C7_WeightSumNearLength ==
    (Done("compute_integration_weights") /\ PointsOf >= 2 /\ StepOf > 0) =>
        LET total  == SeqSum(ret.dp.w)
            length == 6 * StepOf * (PointsOf - 1)
        IN  /\ Len(ret.dp.w) = PointsOf
            /\ total - length < 6 * StepOf
            /\ length - total < 6 * StepOf

\* C7 witness: Simpson weights of an even number of points, whose sum is not
\* the contour length
C7_Witness ==
    /\ Done("compute_integration_weights")
    /\ call.is_simpson
    /\ PointsOf % 2 = 0
    /\ PointsOf >= 4
    /\ SeqSum(ret.dp.w) # 6 * StepOf * (PointsOf - 1)

\* C8: every price slice_qvar_pricer_with_a_grid returns is at least 1e-10.
C8_QvarPriceFloored ==
    (Done("slice_qvar_pricer_with_a_grid") /\ ret.status = "ok") =>
        \A i \in Indices : FlGeq(ret.option_prices[i], Epsilon)

\* the grid with every NaN entry replaced by an entry that contributes zero
DropNaN(grid) ==
    [k \in DOMAIN grid |-> IF grid[k].nan THEN Fl(0) ELSE grid[k]]

\* what the function of call c, of its copy, returns for the grid g
ResultFor(c, g) ==
    CASE c.fn = "slice_pricer_with_mgf_grid" /\ c.copy = "core" ->
            slice_pricer_with_mgf_grid(g, c.phi_grid, c.forward, c.strikes,
                                       c.optiontypes, c.discfactor,
                                       c.is_spot_measure, c.is_simpson)
      [] c.fn = "slice_pricer_with_mgf_grid" /\ c.copy = "utils" ->
            utils_slice_pricer_with_mgf_grid(g, c.phi_grid, c.forward,
                                             c.strikes, c.optiontypes,
                                             c.discfactor, c.is_spot_measure,
                                             c.is_simpson)
      [] c.fn = "slice_qvar_pricer_with_a_grid" /\ c.copy = "core" ->
            slice_qvar_pricer_with_a_grid(g, c.psi_grid, c.ttm, c.strikes,
                                          c.optiontypes, c.discfactor,
                                          c.is_simpson, c.is_spot_measure)
      [] c.fn = "slice_qvar_pricer_with_a_grid" /\ c.copy = "utils" ->
            utils_slice_qvar_pricer_with_a_grid(g, c.psi_grid, c.ttm,
                                                c.strikes, c.optiontypes,
                                                c.is_spot_measure)
      [] c.fn = "pdf_with_mgf_grid" ->
            pdf_with_mgf_grid(g, c.transform_var_grid, c.space_grid,
                              c.shift, c.is_simpson)

\* C9: in the two slice pricers and the density evaluator a NaN at any index
\* of the log-MGF grid, index 0 included, contributes zero: the call returns
\* what it returns for the grid with the NaN entries replaced by entries of
\* zero contribution.
C9_NaNContributesZero ==
    (pc = "done"
       /\ call.fn \in {"slice_pricer_with_mgf_grid",
                       "slice_qvar_pricer_with_a_grid", "pdf_with_mgf_grid"})
        => ret = ResultFor(call, DropNaN(call.log_mgf_grid))

\* the real part is +0.5 or -0.5 within 1e-10
IsHalf(re) ==
    /\ ReLt(ReSub(ReAbs(re), Re(2, 0)), Re(0, 10))
    /\ ReLt(Re(0, -10), ReSub(ReAbs(re), Re(2, 0)))

\* C10: slice_pricer_with_mgf_grid builds the stable kernel
\* weights/(pi*(p^2+0.25)) if and only if the real part of the contour is
\* +0.5 or -0.5 within 1e-10; for any other real part it builds the generic
\* kernel of the measure.
C10_StableKernelOnlyAtHalf ==
    (Done("slice_pricer_with_mgf_grid") /\ ret.status = "ok") =>
        ret.p_payoff = (IF IsHalf(call.phi_grid.re) THEN "stable"
                        ELSE IF call.is_spot_measure THEN "generic_spot"
                        ELSE "generic_inverse")

====
